---- MODULE Spec2Model ----
(***************************************************************************)
(* Model of target-program.c: main() allocates a buffer of SIZE ints,      *)
(* fills element i with i * 2, sums the elements into a long long, prints  *)
(* "Sum: %lld\n", frees the buffer and returns 0; a null malloc result     *)
(* returns 1 at once.                                                      *)
(*                                                                         *)
(* The buffer size is the compile-time macro SIZE.  The model keeps it as  *)
(* a variable fixed by Init so that the same code is examined for every    *)
(* size in 0..MaxSize; SIZE_DEFAULT is the value the source configures.    *)
(***************************************************************************)
EXTENDS Integers, Sequences, FiniteSets, TLC

\* ------------------------------------------------------------------ bounds
MaxSize == 8

\* Saturation point of the history counters (they are not program state).
CountCap == MaxSize + 3

\* --------------------------------------------------------------- constants
SIZE_DEFAULT == 1000000

\* Width in bits of `int` (the buffer element and the loop index).
INT_BITS == 32

\* Width in bits of `long long` (the accumulator).
LLONG_BITS == 64

\* Initial value of the accumulator.
SumInit == 0

\* Exit status of the early return and of the normal return.
EXIT_FAILURE_CODE == 1

EXIT_SUCCESS_CODE == 0

\* Exit status when no return has happened yet (not a real status).
NoExit == 0 - 1

\* The process was killed by a signal instead of returning from main().
KilledBySignal == 0 - 2

VARIABLES
    SIZE,        \* the macro SIZE for this run
    pc,          \* position of main() in the lifecycle
    arr,         \* the pointer: "unset", "NULL" or "ptr"
    blockState,  \* heap block behind arr: "none", "live" or "freed"
    blockLen,    \* number of int elements of the heap block
    mem,         \* contents of the heap block, index -> int
    writes,      \* history: how often each element was assigned
    i,           \* the loop index of the current for loop
    sum,         \* the accumulator
    sumWrites,   \* history: assignments to sum (its initialisation included)
    out,         \* stdout, a sequence of characters
    exitCode,    \* process exit status, NoExit while running
    mallocCalls, \* history: calls of malloc
    freeCount,   \* history: calls of free
    popIters,    \* history: executions of the Populate loop body
    redIters,    \* history: executions of the Reduce loop body
    ub           \* history: first undefined behaviour met, "none" if none

vars == <<SIZE, pc, arr, blockState, blockLen, mem, writes, i, sum, sumWrites,
          out, exitCode, mallocCalls, freeCount, popIters, redIters, ub>>

\* ----------------------------------------------------------------- helpers
Bump(c) == IF c < CountCap THEN c + 1 ELSE c

RECURSIVE ShiftRight(_, _)
ShiftRight(x, n) == IF n = 0 THEN x ELSE ShiftRight(x \div 2, n - 1)

\* x is representable in a two's complement signed integer of `bits` bits.
FitsSigned(x, bits) == ShiftRight(x, bits - 1) \in {0, 0 - 1}

RECURSIVE Pow2(_)
Pow2(n) == IF n = 0 THEN 1 ELSE 2 * Pow2(n - 1)

\* Two's complement wrap of x (one wrap in either direction) at `bits` bits;
\* used only for widths whose modulus the model checker can represent.
WrapSigned(x, bits) ==
    IF FitsSigned(x, bits) THEN x
    ELSE IF x > 0 THEN x - Pow2(bits) ELSE x + Pow2(bits)

ElemBits_Narrow == INT_BITS \div 8

\* Width of the type of arr[i] and of the product i * 2: int.
ElemBits == INT_BITS

FitsInt(x) == FitsSigned(x, ElemBits)

FitsLLong(x) == FitsSigned(x, LLONG_BITS)

\* Values an indeterminate or out-of-bounds read may yield.
Garbage == {0 - 1, 0, 1}

ElemValue_Mut(k) == k * 3

\* The value stored at index k: i * 2.
ElemValue(k) == k * 2

LoopCond_Mut(k) == k <= SIZE

LoopCond_DoWhile(k) == k = 0 \/ k < SIZE

\* The condition of both for loops: i < SIZE.
LoopCond(k) == k < SIZE

NextIndex_Mut(k) == k

NextIndex_Skip(k) == k + 2

\* The increment of both for loops: i++.
NextIndex(k) == k + 1

Digits == <<"0", "1", "2", "3", "4", "5", "6", "7", "8", "9">>

RECURSIVE FormatUnsigned(_)
FormatUnsigned(n) ==
    IF n < 10 THEN <<Digits[n + 1]>>
    ELSE FormatUnsigned(n \div 10) \o <<Digits[(n % 10) + 1]>>

\* The conversion %lld.
FormatLL(n) == IF n < 0 THEN <<"-">> \o FormatUnsigned(0 - n) ELSE FormatUnsigned(n)

\* The characters printf("Sum: %lld\n", s) writes.
SumLine(s) == <<"S", "u", "m", ":", " ">> \o FormatLL(s) \o <<"\n">>

\* --------------------------------------------------------------------- Init
Init ==
    /\ SIZE \in 0..MaxSize
    /\ pc = "Start"
    /\ arr = "unset"
    /\ blockState = "none"
    /\ blockLen = 0
    /\ mem = <<>>
    /\ writes = <<>>
    /\ i = 0
    /\ sum = 0
    /\ sumWrites = 0
    /\ out = <<>>
    /\ exitCode = NoExit
    /\ mallocCalls = 0
    /\ freeCount = 0
    /\ popIters = 0
    /\ redIters = 0
    /\ ub = "none"

\* ------------------------------------------------------------------ actions
\* The buffer can be accessed at index k without undefined behaviour.
ValidAccess(k) == arr = "ptr" /\ blockState = "live" /\ k \in 0..(blockLen - 1)

AccessFault(k) ==
    IF arr # "ptr" THEN "null_deref"
    ELSE IF blockState # "live" THEN "use_after_free"
    ELSE "out_of_bounds"

FirstUb(kind) == IF ub = "none" THEN kind ELSE ub

Crash(kind) ==
    /\ pc' = "Terminated"
    /\ exitCode' = KilledBySignal
    /\ ub' = FirstUb(kind)

\* malloc(SIZE * sizeof(int)) returns a block; the for loop starts at i = 0.
AllocateOk ==
    /\ pc = "Start"
    /\ mallocCalls' = Bump(mallocCalls)
    /\ arr' = "ptr"
    /\ blockState' = "live"
    /\ blockLen' = SIZE
    /\ mem' = [k \in 0..(SIZE - 1) |-> 0]
    /\ writes' = [k \in 0..(SIZE - 1) |-> 0]
    /\ i' = 0
    /\ pc' = "Allocated"
    /\ UNCHANGED <<SIZE, sum, sumWrites, out, exitCode, freeCount, popIters,
                   redIters, ub>>

AllocateFail_Mut ==
    /\ pc = "Start"
    /\ mallocCalls' = Bump(mallocCalls)
    /\ arr' = "NULL"
    /\ i' = 0
    /\ pc' = "Allocated"
    /\ UNCHANGED <<SIZE, blockState, blockLen, mem, writes, sum, sumWrites, out,
                   exitCode, freeCount, popIters, redIters, ub>>

\* malloc returns a null pointer: if (!arr) return 1;
AllocateFail ==
    /\ pc = "Start"
    /\ mallocCalls' = Bump(mallocCalls)
    /\ arr' = "NULL"
    /\ exitCode' = EXIT_FAILURE_CODE
    /\ pc' = "Terminated"
    /\ UNCHANGED <<SIZE, blockState, blockLen, mem, writes, i, sum, sumWrites,
                   out, freeCount, popIters, redIters, ub>>

\* One pass of the first loop: i < SIZE, arr[i] = i * 2, i++.
PopulateBody ==
    /\ pc = "Allocated"
    /\ LoopCond(i)
    /\ popIters' = Bump(popIters)
    /\ IF ~FitsInt(ElemValue(i))
       THEN \* signed overflow of i * 2: the build wraps or traps
            \/ /\ Crash("overflow")
               /\ UNCHANGED <<mem, writes, i>>
            \/ /\ ub' = FirstUb("overflow")
               /\ IF ValidAccess(i)
                  THEN /\ mem' = [mem EXCEPT ![i] = WrapSigned(ElemValue(i), ElemBits)]
                       /\ writes' = [writes EXCEPT ![i] = Bump(@)]
                  ELSE UNCHANGED <<mem, writes>>
               /\ i' = NextIndex(i)
               /\ UNCHANGED <<pc, exitCode>>
       ELSE IF ~ValidAccess(i)
       THEN \* store through a null, freed or too short block
            \/ /\ Crash(AccessFault(i))
               /\ UNCHANGED <<mem, writes, i>>
            \/ /\ ub' = FirstUb(AccessFault(i))
               /\ i' = NextIndex(i)
               /\ UNCHANGED <<mem, writes, pc, exitCode>>
       ELSE /\ mem' = [mem EXCEPT ![i] = ElemValue(i)]
            /\ writes' = [writes EXCEPT ![i] = Bump(@)]
            /\ i' = NextIndex(i)
            /\ UNCHANGED <<pc, exitCode, ub>>
    /\ UNCHANGED <<SIZE, arr, blockState, blockLen, sum, sumWrites, out,
                   mallocCalls, freeCount, redIters>>

\* The first loop ends; long long sum = 0; the second loop starts at i = 0.
PopulateExit ==
    /\ pc = "Allocated"
    /\ ~LoopCond(i)
    /\ sum' = SumInit
    /\ sumWrites' = Bump(sumWrites)
    /\ i' = 0
    /\ pc' = "Populated"
    /\ UNCHANGED <<SIZE, arr, blockState, blockLen, mem, writes, out, exitCode,
                   mallocCalls, freeCount, popIters, redIters, ub>>

\* sum += v, for a value v read from the buffer.
Accumulate(v, kind) ==
    IF ~FitsLLong(sum + v)
    THEN \* signed overflow of the accumulator: the build wraps or traps
         \/ /\ Crash("overflow")
            /\ UNCHANGED <<sum, sumWrites, i>>
         \/ /\ ub' = FirstUb("overflow")
            /\ sum' = WrapSigned(sum + v, LLONG_BITS)
            /\ sumWrites' = Bump(sumWrites)
            /\ i' = NextIndex(i)
            /\ UNCHANGED <<pc, exitCode>>
    ELSE /\ sum' = sum + v
         /\ sumWrites' = Bump(sumWrites)
         /\ i' = NextIndex(i)
         /\ ub' = FirstUb(kind)
         /\ UNCHANGED <<pc, exitCode>>

\* One pass of the second loop: i < SIZE, sum += arr[i], i++.
ReduceBody ==
    /\ pc = "Populated"
    /\ LoopCond(i)
    /\ redIters' = Bump(redIters)
    /\ IF ~ValidAccess(i)
       THEN \* load through a null, freed or too short block
            \/ /\ Crash(AccessFault(i))
               /\ UNCHANGED <<sum, sumWrites, i>>
            \/ \E v \in Garbage : Accumulate(v, AccessFault(i))
       ELSE IF writes[i] = 0
       THEN \* load of an element that was never assigned
            \E v \in Garbage : Accumulate(v, "uninitialised_read")
       ELSE Accumulate(mem[i], "none")
    /\ UNCHANGED <<SIZE, arr, blockState, blockLen, mem, writes, out,
                   mallocCalls, freeCount, popIters>>

\* The second loop ends.
ReduceExit ==
    /\ pc = "Populated"
    /\ ~LoopCond(i)
    /\ pc' = "Reduced"
    /\ UNCHANGED <<SIZE, arr, blockState, blockLen, mem, writes, i, sum,
                   sumWrites, out, exitCode, mallocCalls, freeCount, popIters,
                   redIters, ub>>

Report_Mut ==
    /\ pc = "Reduced"
    /\ out' = out \o SumLine(sum) \o SumLine(sum)
    /\ pc' = "Reported"
    /\ UNCHANGED <<SIZE, arr, blockState, blockLen, mem, writes, i, sum,
                   sumWrites, exitCode, mallocCalls, freeCount, popIters,
                   redIters, ub>>

\* printf("Sum: %lld\n", sum);
Report ==
    /\ pc = "Reduced"
    /\ out' = out \o SumLine(sum)
    /\ pc' = "Reported"
    /\ UNCHANGED <<SIZE, arr, blockState, blockLen, mem, writes, i, sum,
                   sumWrites, exitCode, mallocCalls, freeCount, popIters,
                   redIters, ub>>

Release_Mut ==
    /\ pc = "Reported"
    /\ pc' = "Released"
    /\ UNCHANGED <<SIZE, arr, blockState, blockLen, mem, writes, i, sum,
                   sumWrites, out, exitCode, mallocCalls, freeCount, popIters,
                   redIters, ub>>

\* free(arr);
Release ==
    /\ pc = "Reported"
    /\ freeCount' = Bump(freeCount)
    /\ IF arr = "NULL"
       THEN UNCHANGED <<blockState, ub>>
       ELSE IF blockState = "live"
       THEN blockState' = "freed" /\ UNCHANGED ub
       ELSE blockState' = blockState /\ ub' = FirstUb("invalid_free")
    /\ pc' = "Released"
    /\ UNCHANGED <<SIZE, arr, blockLen, mem, writes, i, sum, sumWrites, out,
                   exitCode, mallocCalls, popIters, redIters>>

ReturnOk_Mut ==
    /\ pc = "Released"
    /\ pc' = "Start"
    /\ UNCHANGED <<SIZE, arr, blockState, blockLen, mem, writes, i, sum,
                   sumWrites, out, exitCode, mallocCalls, freeCount, popIters,
                   redIters, ub>>

\* return 0;
ReturnOk ==
    /\ pc = "Released"
    /\ exitCode' = EXIT_SUCCESS_CODE
    /\ pc' = "Terminated"
    /\ UNCHANGED <<SIZE, arr, blockState, blockLen, mem, writes, i, sum,
                   sumWrites, out, mallocCalls, freeCount, popIters, redIters,
                   ub>>

Next ==
    \/ AllocateOk
    \/ AllocateFail
    \/ PopulateBody
    \/ PopulateExit
    \/ ReduceBody
    \/ ReduceExit
    \/ Report
    \/ Release
    \/ ReturnOk

Spec == Init /\ [][Next]_vars

\* main() is the only thread and never waits: a step that can be taken is taken.
FairSpec == Spec /\ WF_vars(Next)

\* ------------------------------------------------- arithmetic for the claims
\* Natural numbers beyond the model checker's integers, as decimal digits with
\* the least significant digit first; the empty sequence is zero.
RECURSIVE DigitsLE(_)
DigitsLE(n) == IF n = 0 THEN <<>> ELSE <<n % 10>> \o DigitsLE(n \div 10)

RECURSIVE MulDigitsLE(_, _, _)
MulDigitsLE(ds, m, carry) ==
    IF ds = <<>> THEN DigitsLE(carry)
    ELSE LET t == Head(ds) * m + carry
         IN  <<t % 10>> \o MulDigitsLE(Tail(ds), m, t \div 10)

\* n * (n - 1).
ClosedFormLE(n) == IF n <= 1 THEN <<>> ELSE MulDigitsLE(DigitsLE(n), n - 1, 0)

\* The decimal text of a number, most significant digit first.
CharsOfLE(ds) ==
    IF ds = <<>> THEN <<"0">>
    ELSE [k \in 1..Len(ds) |-> Digits[ds[Len(ds) + 1 - k] + 1]]

RECURSIVE Pow2LE(_)
Pow2LE(n) ==
    IF n <= 20 THEN DigitsLE(Pow2(n))
    ELSE MulDigitsLE(Pow2LE(n - 20), Pow2(20), 0)

\* a < b, for digit sequences without leading zeros.
RECURSIVE LessLE(_, _)
LessLE(a, b) ==
    IF Len(a) # Len(b) THEN Len(a) < Len(b)
    ELSE IF a = <<>> THEN FALSE
    ELSE LET n == Len(a)
         IN  IF a[n] # b[n] THEN a[n] < b[n]
             ELSE LessLE(SubSeq(a, 1, n - 1), SubSeq(b, 1, n - 1))

RECURSIVE SumUpTo(_)
SumUpTo(n) == IF n <= 0 THEN 0 ELSE 2 * (n - 1) + SumUpTo(n - 1)

LineCount(s) == Cardinality({k \in 1..Len(s) : s[k] = "\n"})

SumPrefix == <<"S", "u", "m", ":", " ">>

AllocSucceeded == arr = "ptr"

AfterReport == pc \in {"Reported", "Released"} \/ (pc = "Terminated" /\ AllocSucceeded)

\* ------------------------------------------------------------------- claims
\* C1: on the path where allocation succeeds, the value printed by Report is
\* the closed form N*(N-1), for every N in 0..MaxSize; the closed form of the
\* default N = 1,000,000 prints as 999999000000.
C1_SumIsClosedForm ==
    /\ pc = "Reduced" => sum = SIZE * (SIZE - 1)
    /\ AfterReport =>
          /\ sum = SIZE * (SIZE - 1)
          /\ out = SumPrefix \o CharsOfLE(ClosedFormLE(SIZE)) \o <<"\n">>
    /\ CharsOfLE(ClosedFormLE(SIZE_DEFAULT))
          = <<"9", "9", "9", "9", "9", "9", "0", "0", "0", "0", "0", "0">>

C1_Witness == pc = "Reported" /\ SIZE >= 3 /\ Len(out) > 6

\* C2: when malloc returns null the program is terminated with exit status 1
\* and nothing else has happened or can happen: no element written, the
\* accumulator untouched, nothing printed, free not called, malloc not retried.
C2_AllocFailureStops ==
    arr = "NULL" =>
        /\ pc = "Terminated"
        /\ exitCode = 1
        /\ out = <<>>
        /\ freeCount = 0
        /\ sumWrites = 0
        /\ popIters = 0
        /\ redIters = 0
        /\ writes = <<>>
        /\ mallocCalls = 1
        /\ ~ENABLED Next

C2_Witness == arr = "NULL" /\ pc = "Terminated" /\ SIZE >= 1

\* C3: free is called exactly once if allocation succeeded and never if it
\* failed; it comes after Report and before termination, so no run ends with
\* a live buffer and none frees twice.
C3_ReleaseExactlyOnce ==
    /\ freeCount <= 1
    /\ ub # "invalid_free"
    /\ pc = "Terminated" =>
          /\ freeCount = (IF AllocSucceeded THEN 1 ELSE 0)
          /\ blockState # "live"
    /\ freeCount = 1 =>
          /\ pc \in {"Released", "Terminated"}
          /\ LineCount(out) = 1
          /\ blockState = "freed"
    /\ pc = "Released" => freeCount = 1 /\ exitCode = NoExit
    /\ pc \in {"Allocated", "Populated", "Reduced", "Reported"} =>
          freeCount = 0 /\ blockState = "live"

C3_Witness == pc = "Terminated" /\ freeCount = 1 /\ blockState = "freed"

\* C4: once the Populate loop has finished, element i equals 2*i for every i
\* in [0, N), each index written exactly once, and this stays so through
\* Reduce and Report until Release.
C4_PopulatedValues ==
    pc \in {"Populated", "Reduced", "Reported"} =>
        /\ DOMAIN mem = 0..(SIZE - 1)
        /\ \A k \in 0..(SIZE - 1) : mem[k] = 2 * k /\ writes[k] = 1

C4_Witness == pc = "Reported" /\ SIZE >= 3 /\ mem[2] = 4

\* C5: the exit code is 0 exactly when allocation succeeded, the computation
\* completed and the result was printed, and 1 exactly when allocation failed;
\* no other code is reachable; one output line on success, none on failure.
C5_ExitCodes ==
    /\ exitCode \in {NoExit, 0, 1}
    /\ exitCode # NoExit <=> pc = "Terminated"
    /\ exitCode = 0 <=>
          /\ pc = "Terminated"
          /\ AllocSucceeded
          /\ popIters = SIZE
          /\ redIters = SIZE
          /\ LineCount(out) = 1
    /\ exitCode = 1 <=> (pc = "Terminated" /\ arr = "NULL")
    /\ LineCount(out) <= 1
    /\ exitCode = 0 => LineCount(out) = 1 /\ out[Len(out)] = "\n"
    /\ exitCode = 1 => out = <<>>

C5_Witness == exitCode = 0 /\ SIZE >= 2 /\ LineCount(out) = 1

\* C6: no arithmetic step wraps: every i*2 stored by Populate fits the signed
\* 32-bit element, the accumulator fits signed 64 bits after every addition,
\* and the reported value is the exact sum; for the configured N = 1,000,000
\* the largest element is 1,999,998 and the sum N*(N-1) is below 2^63.
C6_NoWrapAround ==
    /\ ub # "overflow"
    /\ \A k \in DOMAIN mem :
          writes[k] > 0 => mem[k] = 2 * k /\ FitsSigned(mem[k], INT_BITS)
    /\ FitsSigned(sum, LLONG_BITS)
    /\ pc = "Populated" => sum = SumUpTo(i)
    /\ AfterReport => out = SumPrefix \o FormatLL(SumUpTo(SIZE)) \o <<"\n">>
    /\ 2 * (SIZE_DEFAULT - 1) = 1999998
    /\ FitsSigned(2 * (SIZE_DEFAULT - 1), INT_BITS)
    /\ LessLE(ClosedFormLE(SIZE_DEFAULT), Pow2LE(LLONG_BITS - 1))

C6_Witness == pc = "Reported" /\ SIZE = MaxSize /\ sum = SumUpTo(MaxSize) /\ sum > 0

\* C7 as stated: given N = 0 the program reports 'Sum: 0' (with sum 0 and no
\* loop iteration).
C7_EmptyBufferReports ==
    (SIZE = 0 /\ pc = "Terminated") =>
        /\ out = <<"S", "u", "m", ":", " ", "0", "\n">>
        /\ popIters = 0
        /\ redIters = 0
        /\ sum = 0

\* C7 amended: given N = 0, no loop body ever runs, the sum is 0 and nothing
\* undefined happens; if malloc(0) returned a non-null pointer the program
\* reports 'Sum: 0' and exits 0, and if it returned null the program exits 1
\* with no output.
C7_EmptyBuffer ==
    SIZE = 0 =>
        /\ popIters = 0
        /\ redIters = 0
        /\ sum = 0
        /\ ub = "none"
        /\ exitCode \in {NoExit, 0, 1}
        /\ AfterReport => out = <<"S", "u", "m", ":", " ", "0", "\n">>
        /\ (pc = "Terminated" /\ AllocSucceeded) => exitCode = 0
        /\ (pc = "Terminated" /\ ~AllocSucceeded) => exitCode = 1 /\ out = <<>>

C7_Witness == SIZE = 0 /\ pc = "Terminated" /\ AllocSucceeded /\ Len(out) = 7

\* C8: the lifecycle states change only along Start, Allocated, Populated,
\* Reduced, Reported, Released, Terminated, one link at a time, or from Start
\* straight to Terminated, and that only when allocation failed.
LifecycleChain ==
    <<"Start", "Allocated", "Populated", "Reduced", "Reported", "Released",
      "Terminated">>

C8_LinearLifecycle ==
    [][ /\ pc' # pc =>
              \/ \E k \in 1..(Len(LifecycleChain) - 1) :
                    pc = LifecycleChain[k] /\ pc' = LifecycleChain[k + 1]
              \/ pc = "Start" /\ pc' = "Terminated" /\ arr' = "NULL"
        /\ (pc = "Start" /\ pc' = "Allocated") => arr' = "ptr"
      ]_vars

C8_Witness == pc = "Terminated" /\ exitCode = 0 /\ SIZE >= 1

\* C9: every run reaches Terminated, whether allocation succeeds or fails;
\* each loop that has finished ran its body exactly N times; and no step
\* before termination is ever blocked.
C9_Terminates ==
    /\ <>(pc = "Terminated")
    /\ [](pc \in {"Populated", "Reduced", "Reported", "Released"} => popIters = SIZE)
    /\ [](pc \in {"Reduced", "Reported", "Released"} => redIters = SIZE)
    /\ []((pc = "Terminated" /\ AllocSucceeded) => popIters = SIZE /\ redIters = SIZE)
    /\ [](pc # "Terminated" => ENABLED Next)

C9_Witness == pc = "Terminated" /\ AllocSucceeded /\ popIters = SIZE /\ redIters = SIZE /\ SIZE >= 2

\* C10: every buffer access uses an index in 0..N-1 of a live buffer of length
\* exactly N, after a successful allocation and before Release, and Reduce
\* reads only elements Populate has written.
C10_MemorySafe ==
    /\ ub = "none"
    /\ blockState = "live" =>
          /\ blockLen = SIZE
          /\ DOMAIN mem = 0..(SIZE - 1)
          /\ AllocSucceeded
    /\ ENABLED PopulateBody => ValidAccess(i) /\ i \in 0..(SIZE - 1)
    /\ ENABLED ReduceBody =>
          /\ ValidAccess(i)
          /\ i \in 0..(SIZE - 1)
          /\ writes[i] >= 1
    /\ (popIters > 0 \/ redIters > 0) => AllocSucceeded
    /\ blockState = "freed" =>
          /\ pc \in {"Released", "Terminated"}
          /\ ~ENABLED PopulateBody
          /\ ~ENABLED ReduceBody

C10_Witness == pc = "Populated" /\ i = SIZE - 1 /\ SIZE >= 2 /\ redIters = SIZE - 1

====
